---- MODULE Spec2Model ----
(***************************************************************************)
(* Project Identity Authority (PIA): the project registry and its matching *)
(* rules (pia/models.py), the OIDC signature verifier (pia/oidc.py), the   *)
(* DependencyTrack relay (pia/dependencytrack.py) and the request handler  *)
(* that sequences them (pia/main.py, upload_sbom).                         *)
(***************************************************************************)
EXTENDS Naturals, Sequences, FiniteSets, TLC

VARIABLES
    projects,           \* app.state.projects: the registry, a list of Project
    verify_binding,     \* what the name oidc.verify_token is bound to
    pc,                 \* position of the request in main.upload_sbom
    authorization,      \* the request's Authorization header
    payload,            \* the request's JSON body
    token,              \* main.upload_sbom: token
    unverified_issuer,  \* main.upload_sbom: unverified_issuer
    verified_claims,    \* main.upload_sbom: verified_claims
    project,            \* main.upload_sbom: project
    dt_payload,         \* main.upload_sbom: dt_payload, as handed to the relay
    response,           \* what the caller receives
    steps,              \* the steps of upload_sbom run so far in this request,
                        \* each with "ok" or "failed"
    outbound,           \* the outbound network calls made so far in this request
    log,                \* the logger calls made so far in this request
    call                \* the last direct call of a registry method, with its result

vars == <<projects, verify_binding, pc, authorization, payload, token,
          unverified_issuer, verified_claims, project, dt_payload, response,
          steps, outbound, log, call>>

reqvars == <<pc, authorization, payload, token, unverified_issuer,
             verified_claims, project, dt_payload, response, steps, outbound, log>>

-----------------------------------------------------------------------------
(* Python values *)

\* Python's None, and a name that is not bound yet
None == [kind |-> "None"]
Unset == "<unset>"

\* an exception that propagates out of a call; calls: the outbound calls made before it
Raise(exc, calls) == [kind |-> "raise", exc |-> exc, calls |-> calls]
Return(value, calls) == [kind |-> "return", value |-> value, calls |-> calls]
\* a call that never returns: it waits for an answer without a timeout
Blocked(calls) == [kind |-> "blocked", calls |-> calls]

\* dict.get(name): the value, or None when the key is absent
Has(d, name) == name \in DOMAIN d
EmptyDict == <<>>

-----------------------------------------------------------------------------
(* Bounds of the model *)

\* the longest registry
MaxProjects == 2

\* issuers as pydantic stores them: scheme https, a host and the path as written
\* in projects.yaml (empty, or "/")
IssuerUrls == {[host |-> "idp.example", path |-> ""],
               [host |-> "idp.example", path |-> "/"],
               [host |-> "ci.example", path |-> ""]}

\* the iss strings a token may carry; other.example is never registered
IssuerStrings == {"https://idp.example", "https://idp.example/",
                  "https://ci.example", "https://other.example"}

\* the required_claims maps of the sample projects
RequiredClaimSets == {EmptyDict,
                      [repo |-> "org/app"],
                      [repo |-> "org/other"],
                      [repo |-> "org/app", ref |-> "main"]}

\* project_id and dt_parent_uuid of the project at each position of projects.yaml
ProjectIds == <<"project-1", "project-2", "project-3", "project-4">>
ParentUuids == <<"uuid-1", "uuid-2", "uuid-3", "uuid-4">>

\* every claim set over iss, repo and ref
DictsOver(names, values) == UNION {[S -> values] : S \in SUBSET names}
CustomClaimSets ==
    {c \in DictsOver({"repo", "ref"}, {"org/app", "org/other", "main"}) :
        /\ (Has(c, "repo") => c.repo \in {"org/app", "org/other"})
        /\ (Has(c, "ref") => c.ref = "main")}
IssClaimSets == {EmptyDict} \cup {[iss |-> s] : s \in IssuerStrings}
ClaimSets == {a @@ b : a \in IssClaimSets, b \in CustomClaimSets}

-----------------------------------------------------------------------------
(* pia/models.py *)

\* variant of HttpsUrl without preserve_empty_path: an empty path is rendered "/"
UrlStr_default_path(url) ==
    "https://" \o url.host \o (IF url.path = "" THEN "/" ELSE url.path)

\* HttpsUrl with preserve_empty_path=True: str() renders the path as stored,
\* an empty path stays empty
UrlStr(url) == "https://" \o url.host \o url.path

Project(i, url, required) ==
    [project_id |-> ProjectIds[i], issuer |-> url,
     dt_parent_uuid |-> ParentUuids[i], required_claims |-> required]

\* the registries Projects.from_yaml_file can load: every list of valid projects
Registries(urls, reqs, maxlen) ==
    UNION {{[i \in 1..n |-> Project(i, f[i][1], f[i][2])] :
                f \in [1..n -> urls \X reqs]} : n \in 0..maxlen}

\* variant of match_issuer: a trailing slash is not significant
match_issuer_slash_insensitive(self, issuer) ==
    \/ issuer = UrlStr(self.issuer)
    \/ issuer \o "/" = UrlStr(self.issuer)
    \/ issuer = UrlStr(self.issuer) \o "/"

\* Project.match_issuer
match_issuer(self, issuer) == issuer = UrlStr(self.issuer)

\* variant of match_claims: a required claim the token lacks is skipped
match_claims_skip_absent(self, token_claims) ==
    \A claim_name \in DOMAIN self.required_claims :
        Has(token_claims, claim_name)
            => token_claims[claim_name] = self.required_claims[claim_name]

\* variant of match_claims: a project without required claims matches nothing
match_claims_nonempty(self, token_claims) ==
    /\ DOMAIN self.required_claims # {}
    /\ \A claim_name \in DOMAIN self.required_claims :
        /\ Has(token_claims, claim_name)
        /\ token_claims[claim_name] = self.required_claims[claim_name]

\* variant of match_claims: every project matches
match_claims_always(self, token_claims) == TRUE

\* Project.match_claims: token_claims.get(name) is None for an absent claim, and
\* None differs from every expected value (required_claims is dict[str, str])
match_claims(self, token_claims) ==
    \A claim_name \in DOMAIN self.required_claims :
        /\ Has(token_claims, claim_name)
        /\ token_claims[claim_name] = self.required_claims[claim_name]

\* variant of has_issuer: only the first project is asked
has_issuer_first_project(root, issuer) ==
    Len(root) >= 1 /\ match_issuer(root[1], issuer)

\* variant of has_issuer: any(project for project in self.root)
has_issuer_any_project(root, issuer) ==
    \E i \in 1..Len(root) : TRUE

\* Projects.has_issuer
has_issuer(root, issuer) ==
    \E i \in 1..Len(root) : match_issuer(root[i], issuer)

\* Projects.find_project_by_claims, the loop from position i on
RECURSIVE FindFrom(_, _, _, _)
RECURSIVE FindLastFrom(_, _, _, _)
FindFrom(root, token_claims, issuer, i) ==
    IF i > Len(root) THEN None
    ELSE IF match_issuer(root[i], issuer) /\ match_claims(root[i], token_claims)
         THEN root[i]
         ELSE FindFrom(root, token_claims, issuer, i + 1)

\* variant of the loop: from the last project down, so the last match is returned
FindLastFrom(root, token_claims, issuer, i) ==
    IF i < 1 THEN None
    ELSE IF match_issuer(root[i], issuer) /\ match_claims(root[i], token_claims)
         THEN root[i]
         ELSE FindLastFrom(root, token_claims, issuer, i - 1)

\* variant of find_project_by_claims: the issuer is not compared
find_project_by_claims_any_issuer(root, token_claims) ==
    IF ~Has(token_claims, "iss") THEN Raise("KeyError", <<>>)
    ELSE LET matching == SelectSeq(root, LAMBDA p : match_claims(p, token_claims))
         IN  Return(IF matching = <<>> THEN None ELSE matching[1], <<>>)

find_last_project_by_claims(root, token_claims) ==
    IF ~Has(token_claims, "iss") THEN Raise("KeyError", <<>>)
    ELSE Return(FindLastFrom(root, token_claims, token_claims["iss"], Len(root)), <<>>)

\* Projects.find_project_by_claims: token_claims["iss"] raises KeyError when absent
find_project_by_claims(root, token_claims) ==
    IF ~Has(token_claims, "iss") THEN Raise("KeyError", <<>>)
    ELSE Return(FindFrom(root, token_claims, token_claims["iss"], 1), <<>>)

-----------------------------------------------------------------------------
(* Tokens and the PyJWT calls made on them *)

\* settings.expected_audience, settings.dependency_track_url and
\* settings.dependency_track_api_key (PIA_DEPENDENCY_TRACK_API_KEY)
expected_audience == "pia.eclipse.org"
dependency_track_url == "https://sbom.eclipse.org/api/v1/bom"
dependency_track_api_key == "test-secret"

\* a token that is no JWT at all
MalformedToken ==
    [wellformed |-> FALSE, alg |-> "none", kid |-> "none", signed_with |-> "none",
     claims |-> EmptyDict]

\* a JWT: the algorithm and key id of its header, the key that made its
\* signature, and its payload
Jwt(alg, kid, key, claims) ==
    [wellformed |-> TRUE, alg |-> alg, kid |-> kid, signed_with |-> key,
     claims |-> claims]

\* the signing key each identity provider publishes, and a key of an attacker
IssuerKey(issuer) == "key-" \o issuer
AttackerKey == "key-attacker"

\* the time of the request, and registered claims before and after it
Clock == [now |-> 100]
ValidStdClaims == [aud |-> expected_audience, exp |-> 200, iat |-> 50]
ExpiredStdClaims == [aud |-> expected_audience, exp |-> 60, iat |-> 50]

\* jwt.decode(token, options=dict(verify_signature=False, require=["iss"])):
\* DecodeError for a malformed token, MissingRequiredClaimError without iss
jwt_decode_unverified(tok) ==
    IF ~tok.wellformed \/ ~Has(tok.claims, "iss")
    THEN Raise("PyJWTError", <<>>)
    ELSE Return(tok.claims, <<>>)

\* variant of jwt.decode: verify_exp=False, an expired token is accepted
jwt_decode_ok_no_exp(tok, key, audience, require) ==
    /\ tok.alg = "RS256"
    /\ tok.signed_with = key
    /\ require \subseteq DOMAIN tok.claims
    /\ tok.claims.iat <= Clock.now
    /\ tok.claims.aud = audience

\* variant of jwt.decode: the algorithm named by the token's header is used
jwt_decode_ok_any_alg(tok, key, audience, require) ==
    /\ tok.signed_with = key
    /\ require \subseteq DOMAIN tok.claims
    /\ tok.claims.exp > Clock.now
    /\ tok.claims.iat <= Clock.now
    /\ tok.claims.aud = audience

\* jwt.decode(token, key, algorithms=["RS256"], audience=..., options=dict(
\* verify_signature, verify_exp, verify_aud, verify_iat, require=...)) succeeds
jwt_decode_ok(tok, key, audience, require) ==
    /\ tok.alg = "RS256"
    /\ tok.signed_with = key
    /\ require \subseteq DOMAIN tok.claims
    /\ tok.claims.exp > Clock.now
    /\ tok.claims.iat <= Clock.now
    /\ tok.claims.aud = audience

-----------------------------------------------------------------------------
(* pia/oidc.py *)

\* the parameters of verify_token, none of which has a default
VerifyTokenParams == <<"token", "issuer", "expected_audience", "required_claims">>

\* what the network answers during one verify_token: the discovery document
\* request and the key set request
DiscoveryAnswers ==
    {[kind |-> "RequestException"],             \* no answer, timeout, non-2xx, bad JSON
     [kind |-> "json", is_object |-> FALSE, doc |-> EmptyDict],  \* a JSON list
     [kind |-> "json", is_object |-> TRUE, doc |-> EmptyDict],
     [kind |-> "json", is_object |-> TRUE, doc |-> [jwks_uri |-> ""]],
     [kind |-> "json", is_object |-> TRUE, doc |-> [jwks_uri |-> "jwks"]]}
JwksAnswers(issuer) ==
    {[kind |-> "PyJWKClientError", keys |-> {}],
     [kind |-> "keys", keys |-> {IssuerKey(issuer)}]}
NetAnswers(issuer) ==
    [discovery : DiscoveryAnswers, jwks : JwksAnswers(issuer)]

\* verify_token called with the positional arguments args, the network
\* answering net
verify_token(args, net) ==
    IF Len(args) # Len(VerifyTokenParams)
    THEN Raise("TypeError", <<>>)
    ELSE LET tok == args[1]
             issuer == args[2]
             audience == args[3]
             required_claims == args[4]
             config_url == issuer \o "/.well-known/openid-configuration"
             fetched == <<[method |-> "GET", url |-> config_url]>>
         IN  IF net.discovery.kind = "RequestException"
             THEN Raise("TokenVerificationError", fetched)
             ELSE IF ~net.discovery.is_object
             THEN Raise("AttributeError", fetched)
             ELSE IF ~Has(net.discovery.doc, "jwks_uri")
                     \/ net.discovery.doc.jwks_uri = ""
             THEN Raise("TokenVerificationError", fetched)
             ELSE IF ~tok.wellformed
             THEN Raise("TokenVerificationError", fetched)
             ELSE LET keyed == fetched \o
                          <<[method |-> "GET", url |-> net.discovery.doc.jwks_uri]>>
                  IN  IF net.jwks.kind # "keys" \/ tok.kid \notin net.jwks.keys
                      THEN Raise("TokenVerificationError", keyed)
                      ELSE IF ~jwt_decode_ok(tok, tok.kid, audience,
                                             {"aud", "exp", "iat"} \cup required_claims)
                      THEN Raise("TokenVerificationError", keyed)
                      ELSE Return(tok.claims, keyed)

-----------------------------------------------------------------------------
(* pia/dependencytrack.py *)

\* DependencyTrackUploadPayload.to_dict
to_dict(p) ==
    [projectName |-> p.project_name, projectVersion |-> p.project_version,
     parentUUID |-> p.parent_uuid, autoCreate |-> p.auto_create, bom |-> p.bom]

\* what requests.post may meet: an answer with any status and body, a failure
\* in transport, or a server that accepts the request and never answers
PostAnswers ==
    {[kind |-> "RequestException", status_code |-> 0, content |-> ""],
     [kind |-> "silent", status_code |-> 0, content |-> ""]}
    \cup {[kind |-> "response", status_code |-> s, content |-> c] :
            s \in {200, 401, 502}, c \in {"{\"token\":\"t\"}", "denied"}}

\* variant of upload_sbom: the transport error is not wrapped
dt_upload_sbom_unwrapped(url, api_key, p, post) ==
    LET sent == <<[method |-> "POST", url |-> url, api_key |-> api_key,
                   json |-> to_dict(p), answer |-> post]>>
    IN  IF post.kind = "RequestException"
        THEN Raise("RequestException", sent)
        ELSE IF post.kind = "silent"
        THEN Blocked(sent)
        ELSE Return(post, sent)

\* dependencytrack.upload_sbom; the call is recorded with the answer it got.
\* requests.post is called without timeout, so it waits for a silent server
\* for ever
dt_upload_sbom(url, api_key, p, post) ==
    LET sent == <<[method |-> "POST", url |-> url, api_key |-> api_key,
                   json |-> to_dict(p), answer |-> post]>>
    IN  IF post.kind = "RequestException"
        THEN Raise("DependencyTrackError", sent)
        ELSE IF post.kind = "silent"
        THEN Blocked(sent)
        ELSE Return(post, sent)

-----------------------------------------------------------------------------
(* Requests *)

\* the tokens a caller may present: no JWT, or an RS256 JWT carrying any claim
\* set over iss and repo with valid or expired registered claims, signed by the
\* provider its iss names or by an attacker
RequestClaimSets == {c \in ClaimSets : ~Has(c, "ref")}
RequestTokens ==
    {MalformedToken} \cup
    {Jwt("RS256", k, k, c @@ std) :
        k \in {IssuerKey("https://idp.example"), AttackerKey},
        c \in RequestClaimSets,
        std \in {ValidStdClaims, ExpiredStdClaims}}

\* the Authorization headers: absent, another scheme, or "Bearer " and a token
Headers ==
    {None, [scheme |-> "Basic ", credential |-> MalformedToken]}
    \cup {[scheme |-> "Bearer ", credential |-> t] : t \in RequestTokens}

\* the JSON bodies: one that is no PiaUploadPayload, and two that are
InvalidPayload == [valid |-> FALSE]
Payloads ==
    {InvalidPayload,
     [valid |-> TRUE, product_name |-> "app", product_version |-> "1.0", bom |-> "Ym9t"],
     [valid |-> TRUE, product_name |-> "lib", product_version |-> "2.0", bom |-> "YjI="]}

\* the registries of the request handler's runs
HandlerRegistries ==
    Registries(IssuerUrls, {r \in RequiredClaimSets : ~Has(r, "ref")}, MaxProjects)

-----------------------------------------------------------------------------
(* pia/main.py *)

\* raise HTTPException(status_code, detail)
HTTPException(status_code, detail) ==
    [kind |-> "HTTPException", status_code |-> status_code, body |-> detail]
\* _401(msg)
HTTP401(msg) == HTTPException(401, msg)
\* Response(content, status_code, media_type="application/json")
Response(content, status_code) ==
    [kind |-> "Response", status_code |-> status_code, body |-> content]
\* FastAPI's answer to a request that fails validation, and to an exception
\* that escapes the handler
ValidationError422 ==
    [kind |-> "RequestValidationError", status_code |-> 422, body |-> "detail"]
ServerError500(exc) ==
    [kind |-> "ServerError", status_code |-> 500, body |-> "Internal Server Error"]

\* the positional arguments of the call oidc.verify_token(...) in upload_sbom
VerifyCallArgs(tok, issuer) == <<tok, issuer, expected_audience>>

\* the test double that tests/test_main.py patches in place of
\* oidc.verify_token: return_value, the claims of the token with the issuer of
\* the unverified decode, or side_effect, TokenVerificationError
PatchedVerifyResults(tok) ==
    {Return(tok.claims, <<>>), Raise("TokenVerificationError", <<>>)}

\* the results the call of oidc.verify_token can have: of pia.oidc.verify_token
\* itself under every answer of the network, or of the test double
VerifyResults(binding, tok, issuer) ==
    IF binding = "oidc"
    THEN {verify_token(VerifyCallArgs(tok, issuer), net) : net \in NetAnswers(issuer)}
    ELSE PatchedVerifyResults(tok)

Fail(step, resp, logged) ==
    /\ pc' = "done"
    /\ response' = resp
    /\ steps' = Append(steps, <<step, "failed">>)
    /\ log' = log \o logged

\* a request arrives; FastAPI validates the body and the required header
Receive ==
    /\ pc = "idle"
    /\ \E h \in Headers, body \in Payloads :
        /\ authorization' = h
        /\ payload' = body
        /\ IF h = None \/ ~body.valid
           THEN /\ pc' = "done"
                /\ response' = ValidationError422
           ELSE /\ pc' = "bearer"
                /\ UNCHANGED response
    /\ UNCHANGED <<projects, verify_binding, token, unverified_issuer,
                   verified_claims, project, dt_payload, steps, outbound, log, call>>

\* if not authorization.startswith("Bearer "): _401(...); token = authorization[7:]
ExtractBearer ==
    /\ pc = "bearer"
    /\ IF authorization.scheme # "Bearer "
       THEN /\ Fail("bearer", HTTP401("Invalid Authorization header format"), <<>>)
            /\ UNCHANGED token
       ELSE /\ token' = authorization.credential
            /\ pc' = "decode"
            /\ steps' = Append(steps, <<"bearer", "ok">>)
            /\ UNCHANGED <<response, log>>
    /\ UNCHANGED <<projects, verify_binding, authorization, payload,
                   unverified_issuer, verified_claims, project, dt_payload,
                   outbound, call>>

\* unverified_issuer = jwt.decode(token, options=...)["iss"]
DecodeUnverified ==
    /\ pc = "decode"
    /\ LET r == jwt_decode_unverified(token)
       IN  IF r.kind = "raise"
           THEN /\ Fail("decode", HTTP401("Invalid token"), <<"Token decode failed">>)
                /\ UNCHANGED unverified_issuer
           ELSE /\ unverified_issuer' = r.value["iss"]
                /\ pc' = "prefilter"
                /\ steps' = Append(steps, <<"decode", "ok">>)
                /\ UNCHANGED <<response, log>>
    /\ UNCHANGED <<projects, verify_binding, authorization, payload, token,
                   verified_claims, project, dt_payload, outbound, call>>

\* variant of the pre-filter: the unknown issuer is logged and the request goes on
PreFilterLogsOnly ==
    /\ pc = "prefilter"
    /\ pc' = "verify"
    /\ IF ~has_issuer(projects, unverified_issuer)
       THEN /\ steps' = Append(steps, <<"prefilter", "failed">>)
            /\ log' = Append(log, "Issuer not allowed")
       ELSE /\ steps' = Append(steps, <<"prefilter", "ok">>)
            /\ UNCHANGED log
    /\ UNCHANGED <<projects, verify_binding, authorization, payload, token,
                   unverified_issuer, verified_claims, project, dt_payload,
                   response, outbound, call>>

\* if not projects.has_issuer(unverified_issuer): _401("Issuer not allowed")
PreFilter ==
    /\ pc = "prefilter"
    /\ IF ~has_issuer(projects, unverified_issuer)
       THEN Fail("prefilter", HTTP401("Issuer not allowed"), <<"Issuer not allowed">>)
       ELSE /\ pc' = "verify"
            /\ steps' = Append(steps, <<"prefilter", "ok">>)
            /\ UNCHANGED <<response, log>>
    /\ UNCHANGED <<projects, verify_binding, authorization, payload, token,
                   unverified_issuer, verified_claims, project, dt_payload,
                   outbound, call>>

\* variant of the verification step: after a TokenVerificationError the request
\* goes on with the claims of the unverified decode
VerifyCallFallsBack ==
    /\ pc = "verify"
    /\ \E r \in VerifyResults(verify_binding, token, unverified_issuer) :
        /\ outbound' = outbound \o r.calls
        /\ IF r.kind = "return"
           THEN /\ verified_claims' = r.value
                /\ pc' = "match"
                /\ steps' = Append(steps, <<"verify", "ok">>)
                /\ UNCHANGED <<response, log>>
           ELSE IF r.exc = "TokenVerificationError"
           THEN /\ verified_claims' = token.claims
                /\ pc' = "match"
                /\ steps' = Append(steps, <<"verify", "failed">>)
                /\ log' = Append(log, "Token verification failed")
                /\ UNCHANGED response
           ELSE /\ UNCHANGED verified_claims
                /\ Fail("verify", ServerError500(r.exc), <<>>)
    /\ UNCHANGED <<projects, verify_binding, authorization, payload, token,
                   unverified_issuer, project, dt_payload, call>>

\* verified_claims = oidc.verify_token(token, unverified_issuer,
\* settings.expected_audience), except oidc.TokenVerificationError: _401(...)
VerifyCall ==
    /\ pc = "verify"
    /\ \E r \in VerifyResults(verify_binding, token, unverified_issuer) :
        /\ outbound' = outbound \o r.calls
        /\ IF r.kind = "return"
           THEN /\ verified_claims' = r.value
                /\ pc' = "match"
                /\ steps' = Append(steps, <<"verify", "ok">>)
                /\ UNCHANGED <<response, log>>
           ELSE /\ UNCHANGED verified_claims
                /\ IF r.exc = "TokenVerificationError"
                   THEN Fail("verify", HTTP401("Token verification failed"),
                             <<"Token verification failed">>)
                   ELSE Fail("verify", ServerError500(r.exc), <<>>)
    /\ UNCHANGED <<projects, verify_binding, authorization, payload, token,
                   unverified_issuer, project, dt_payload, call>>

\* project = projects.find_project_by_claims(verified_claims);
\* if not project: _401(...)
MatchProject ==
    /\ pc = "match"
    /\ LET r == find_project_by_claims(projects, verified_claims)
       IN  IF r.kind = "raise"
           THEN /\ Fail("match", ServerError500(r.exc), <<>>)
                /\ UNCHANGED project
           ELSE IF r.value = None
           THEN /\ Fail("match", HTTP401("No matching project found for token claims"),
                        <<"No matching project found for token claims">>)
                /\ project' = None
           ELSE /\ project' = r.value
                /\ pc' = "relay"
                /\ steps' = Append(steps, <<"match", "ok">>)
                /\ log' = Append(log, "Successfully authenticated project")
                /\ UNCHANGED response
    /\ UNCHANGED <<projects, verify_binding, authorization, payload, token,
                   unverified_issuer, verified_claims, dt_payload, outbound, call>>

\* dt_payload = DependencyTrackUploadPayload(...)
DependencyTrackUploadPayload(body, proj) ==
    [project_name |-> body.product_name, project_version |-> body.product_version,
     parent_uuid |-> proj.dt_parent_uuid, auto_create |-> TRUE, bom |-> body.bom]

\* variant of the relay: the downstream body is returned under the status 200
\* that the route declares
RelayAnswers200 ==
    /\ pc = "relay"
    /\ \E post \in PostAnswers :
        LET p == DependencyTrackUploadPayload(payload, project)
            r == dt_upload_sbom(dependency_track_url, dependency_track_api_key, p, post)
        IN  /\ dt_payload' = p
            /\ outbound' = outbound \o r.calls
            /\ IF r.kind = "return"
               THEN /\ pc' = "done"
                    /\ steps' = Append(steps, <<"relay", "ok">>)
                    /\ response' = Response(r.value.content, 200)
                    /\ log' = Append(log, "Uploaded SBOM to DependencyTrack")
               ELSE IF r.kind = "blocked"
               THEN /\ pc' = "blocked"
                    /\ UNCHANGED <<steps, response, log>>
               ELSE IF r.exc = "DependencyTrackError"
               THEN Fail("relay",
                         HTTPException(502, "Failed to upload to DependencyTrack"),
                         <<"DependencyTrack upload failed">>)
               ELSE Fail("relay", ServerError500(r.exc), <<>>)
    /\ UNCHANGED <<projects, verify_binding, authorization, payload, token,
                   unverified_issuer, verified_claims, project, call>>

\* dt_response = dependencytrack.upload_sbom(...); return Response(...), except
\* dependencytrack.DependencyTrackError: raise HTTPException(502); while the
\* call does not return the handler stays in it
Relay ==
    /\ pc = "relay"
    /\ \E post \in PostAnswers :
        LET p == DependencyTrackUploadPayload(payload, project)
            r == dt_upload_sbom(dependency_track_url, dependency_track_api_key, p, post)
        IN  /\ dt_payload' = p
            /\ outbound' = outbound \o r.calls
            /\ IF r.kind = "return"
               THEN /\ pc' = "done"
                    /\ steps' = Append(steps, <<"relay", "ok">>)
                    /\ response' = Response(r.value.content, r.value.status_code)
                    /\ log' = Append(log, "Uploaded SBOM to DependencyTrack")
               ELSE IF r.kind = "blocked"
               THEN /\ pc' = "blocked"
                    /\ UNCHANGED <<steps, response, log>>
               ELSE IF r.exc = "DependencyTrackError"
               THEN Fail("relay",
                         HTTPException(502, "Failed to upload to DependencyTrack"),
                         <<"DependencyTrack upload failed">>)
               ELSE Fail("relay", ServerError500(r.exc), <<>>)
    /\ UNCHANGED <<projects, verify_binding, authorization, payload, token,
                   unverified_issuer, verified_claims, project, call>>

\* variant of the end of a request: the registry is dropped with the request
FinishDropsRegistry ==
    /\ pc = "done"
    /\ pc' = "idle"
    /\ authorization' = None
    /\ payload' = None
    /\ token' = None
    /\ unverified_issuer' = Unset
    /\ verified_claims' = None
    /\ project' = None
    /\ dt_payload' = None
    /\ response' = None
    /\ steps' = <<>>
    /\ outbound' = <<>>
    /\ log' = <<>>
    /\ projects' = <<>>
    /\ UNCHANGED <<verify_binding, call>>

\* the response is sent and the objects of the request are discarded
Finish ==
    /\ pc = "done"
    /\ pc' = "idle"
    /\ authorization' = None
    /\ payload' = None
    /\ token' = None
    /\ unverified_issuer' = Unset
    /\ verified_claims' = None
    /\ project' = None
    /\ dt_payload' = None
    /\ response' = None
    /\ steps' = <<>>
    /\ outbound' = <<>>
    /\ log' = <<>>
    /\ UNCHANGED <<projects, verify_binding, call>>

Idle ==
    /\ pc = "idle"
    /\ authorization = None
    /\ payload = None
    /\ token = None
    /\ unverified_issuer = Unset
    /\ verified_claims = None
    /\ project = None
    /\ dt_payload = None
    /\ response = None
    /\ steps = <<>>
    /\ outbound = <<>>
    /\ log = <<>>

\* no registry method has been called directly
NoCall == [op |-> "none"]

\* the server after startup: the registry loaded by lifespan, and
\* oidc.verify_token bound to pia.oidc.verify_token or to the test double
Init ==
    /\ projects \in HandlerRegistries
    /\ verify_binding \in {"oidc", "patched"}
    /\ call = NoCall
    /\ Idle

Next ==
    \/ Receive
    \/ ExtractBearer
    \/ DecodeUnverified
    \/ PreFilter
    \/ VerifyCall
    \/ MatchProject
    \/ Relay
    \/ Finish

Spec == Init /\ [][Next]_vars

\* the server as deployed: oidc.verify_token is pia.oidc.verify_token
InitDeployed ==
    /\ projects \in HandlerRegistries
    /\ verify_binding = "oidc"
    /\ call = NoCall
    /\ Idle

NextDeployed ==
    \/ Receive
    \/ ExtractBearer
    \/ DecodeUnverified
    \/ PreFilter
    \/ VerifyCall
    \/ Finish

SpecDeployed == InitDeployed /\ [][NextDeployed]_vars

-----------------------------------------------------------------------------
(* Two requests in flight: the request variables hold the locals of the      *)
(* invocation of upload_sbom that is running, call holds the locals of the   *)
(* invocation that is suspended                                              *)

\* the headers and bodies of the two requests
ConcurrentHeaders ==
    {[scheme |-> "Basic ", credential |-> MalformedToken],
     [scheme |-> "Bearer ", credential |-> MalformedToken]}
    \cup {[scheme |-> "Bearer ",
           credential |-> Jwt("RS256", IssuerKey("https://idp.example"),
                              IssuerKey("https://idp.example"), c @@ ValidStdClaims)] :
            c \in {[iss |-> "https://idp.example", repo |-> "org/app"],
                   [iss |-> "https://idp.example", repo |-> "org/other"],
                   [iss |-> "https://other.example", repo |-> "org/app"]}}
ConcurrentPayloads == {body \in Payloads : body.valid}

\* the registries of these runs: projects of one issuer that differ in repo
ConcurrentRegistries ==
    Registries({[host |-> "idp.example", path |-> ""]},
               {[repo |-> "org/app"], [repo |-> "org/other"]}, MaxProjects)

\* the locals of an invocation of upload_sbom that has just been entered
Entered(h, body) ==
    [pc |-> "bearer", authorization |-> h, payload |-> body, token |-> None,
     unverified_issuer |-> Unset, verified_claims |-> None, project |-> None,
     dt_payload |-> None, response |-> None, steps |-> <<>>, outbound |-> <<>>,
     log |-> <<>>]

\* the locals of the running invocation
Locals ==
    [pc |-> pc, authorization |-> authorization, payload |-> payload,
     token |-> token, unverified_issuer |-> unverified_issuer,
     verified_claims |-> verified_claims, project |-> project,
     dt_payload |-> dt_payload, response |-> response, steps |-> steps,
     outbound |-> outbound, log |-> log]

\* variant of the switch: verified_claims is one module-level name that both
\* invocations write and read
SwitchSharingClaims ==
    /\ call.op = "parked"
    /\ call' = [op |-> "parked"] @@ Locals
    /\ pc' = call.pc
    /\ authorization' = call.authorization
    /\ payload' = call.payload
    /\ token' = call.token
    /\ unverified_issuer' = call.unverified_issuer
    /\ project' = call.project
    /\ dt_payload' = call.dt_payload
    /\ response' = call.response
    /\ steps' = call.steps
    /\ outbound' = call.outbound
    /\ log' = call.log
    /\ UNCHANGED <<projects, verify_binding, verified_claims>>

\* the running invocation is suspended and the other one goes on where it
\* was; each keeps its own locals, the registry and the settings are shared
Switch ==
    /\ call.op = "parked"
    /\ call' = [op |-> "parked"] @@ Locals
    /\ pc' = call.pc
    /\ authorization' = call.authorization
    /\ payload' = call.payload
    /\ token' = call.token
    /\ unverified_issuer' = call.unverified_issuer
    /\ verified_claims' = call.verified_claims
    /\ project' = call.project
    /\ dt_payload' = call.dt_payload
    /\ response' = call.response
    /\ steps' = call.steps
    /\ outbound' = call.outbound
    /\ log' = call.log
    /\ UNCHANGED <<projects, verify_binding>>

\* two requests have passed FastAPI's validation and entered upload_sbom
InitConcurrent ==
    /\ projects \in ConcurrentRegistries
    /\ verify_binding \in {"oidc", "patched"}
    /\ \E h1 \in ConcurrentHeaders, h2 \in ConcurrentHeaders,
          body1 \in ConcurrentPayloads, body2 \in ConcurrentPayloads :
        /\ pc = Entered(h1, body1).pc
        /\ authorization = h1
        /\ payload = body1
        /\ token = None
        /\ unverified_issuer = Unset
        /\ verified_claims = None
        /\ project = None
        /\ dt_payload = None
        /\ response = None
        /\ steps = <<>>
        /\ outbound = <<>>
        /\ log = <<>>
        /\ call = [op |-> "parked"] @@ Entered(h2, body2)

NextConcurrent ==
    \/ ExtractBearer
    \/ DecodeUnverified
    \/ PreFilter
    \/ VerifyCall
    \/ MatchProject
    \/ Relay
    \/ Switch

SpecConcurrent == InitConcurrent /\ [][NextConcurrent]_vars

-----------------------------------------------------------------------------
(* Startup: lifespan loads the registry with Projects.from_yaml_file *)

\* the entry at position i of projects.yaml: a complete one with an https
\* issuer, with or without required_claims, one whose issuer is an http URL,
\* or one without dt_parent_uuid
YamlEntries(i) ==
    {[project_id |-> ProjectIds[i],
      issuer |-> [scheme |-> "https", host |-> url.host, path |-> url.path],
      dt_parent_uuid |-> ParentUuids[i], required_claims |-> required] :
        url \in IssuerUrls, required \in {r \in RequiredClaimSets : ~Has(r, "ref")}}
    \cup {[project_id |-> ProjectIds[i],
           issuer |-> [scheme |-> "https", host |-> "ci.example", path |-> ""],
           dt_parent_uuid |-> ParentUuids[i]],
          [project_id |-> ProjectIds[i],
           issuer |-> [scheme |-> "http", host |-> "idp.example", path |-> ""],
           dt_parent_uuid |-> ParentUuids[i], required_claims |-> EmptyDict],
          [project_id |-> ProjectIds[i],
           issuer |-> [scheme |-> "https", host |-> "idp.example", path |-> ""],
           required_claims |-> [repo |-> "org/app"]]}

\* what settings.projects_path may name: a file that cannot be opened, one
\* that is no YAML, or a YAML list of entries
YamlSources(maxlen) ==
    {[kind |-> "unreadable", entries |-> <<>>],
     [kind |-> "malformed", entries |-> <<>>]}
    \cup UNION {{[kind |-> "document", entries |-> f] :
                    f \in {g \in [1..n -> UNION {YamlEntries(i) : i \in 1..n}] :
                             \A i \in 1..n : g[i] \in YamlEntries(i)}} :
                n \in 0..maxlen}

\* pydantic's validation of one entry as a Project: project_id, issuer and
\* dt_parent_uuid are required, the issuer must be an https URL
ProjectValidates(entry) ==
    /\ {"project_id", "issuer", "dt_parent_uuid"} \subseteq DOMAIN entry
    /\ entry.issuer.scheme = "https"

\* the Project that validation builds of an entry; required_claims defaults to
\* an empty dict
ProjectOf(entry) ==
    [project_id |-> entry.project_id,
     issuer |-> [host |-> entry.issuer.host, path |-> entry.issuer.path],
     dt_parent_uuid |-> entry.dt_parent_uuid,
     required_claims |-> IF Has(entry, "required_claims")
                         THEN entry.required_claims ELSE EmptyDict]

\* variant of from_yaml_file: the entries that fail validation are left out
from_yaml_file_skip_invalid(source) ==
    IF source.kind = "unreadable" THEN Raise("OSError", <<>>)
    ELSE IF source.kind = "malformed" THEN Raise("YAMLError", <<>>)
    ELSE LET kept == SelectSeq(source.entries, ProjectValidates)
         IN  Return([i \in 1..Len(kept) |-> ProjectOf(kept[i])], <<>>)

\* Projects.from_yaml_file: open, yaml.safe_load, cls.model_validate
from_yaml_file(source) ==
    IF source.kind = "unreadable" THEN Raise("OSError", <<>>)
    ELSE IF source.kind = "malformed" THEN Raise("YAMLError", <<>>)
    ELSE IF \E i \in 1..Len(source.entries) : ~ProjectValidates(source.entries[i])
    THEN Raise("ValidationError", <<>>)
    ELSE Return([i \in 1..Len(source.entries) |-> ProjectOf(source.entries[i])], <<>>)

\* lifespan: app.state.projects = Projects.from_yaml_file(settings.projects_path);
\* an exception ends the startup and the server exits without serving
Lifespan ==
    /\ pc = "startup"
    /\ \E source \in YamlSources(MaxProjects) :
        LET r == from_yaml_file(source)
        IN  /\ call' = [op |-> "from_yaml_file", source |-> source, result |-> r]
            /\ IF r.kind = "return"
               THEN /\ projects' = r.value
                    /\ pc' = "idle"
               ELSE /\ pc' = "failed"
                    /\ UNCHANGED projects
    /\ UNCHANGED <<verify_binding, authorization, payload, token,
                   unverified_issuer, verified_claims, project, dt_payload,
                   response, steps, outbound, log>>

\* the process before startup: app.state has no projects yet
InitStartup ==
    /\ projects = None
    /\ verify_binding = "oidc"
    /\ call = NoCall
    /\ pc = "startup"
    /\ authorization = None
    /\ payload = None
    /\ token = None
    /\ unverified_issuer = Unset
    /\ verified_claims = None
    /\ project = None
    /\ dt_payload = None
    /\ response = None
    /\ steps = <<>>
    /\ outbound = <<>>
    /\ log = <<>>

NextStartup ==
    \/ Lifespan
    \/ Receive
    \/ ExtractBearer
    \/ DecodeUnverified
    \/ PreFilter
    \/ VerifyCall
    \/ Finish

SpecStartup == InitStartup /\ [][NextStartup]_vars

-----------------------------------------------------------------------------
(* The registry methods called directly, as tests/test_models.py calls them *)

ModelRegistries == Registries(IssuerUrls, RequiredClaimSets, MaxProjects)

CallHasIssuer ==
    /\ call = NoCall
    /\ \E s \in IssuerStrings :
        call' = [op |-> "has_issuer", issuer |-> s,
                 result |-> has_issuer(projects, s)]
    /\ UNCHANGED <<projects, verify_binding, reqvars>>

CallFindProjectByClaims ==
    /\ call = NoCall
    /\ \E c \in ClaimSets :
        call' = [op |-> "find_project_by_claims", token_claims |-> c,
                 result |-> find_project_by_claims(projects, c)]
    /\ UNCHANGED <<projects, verify_binding, reqvars>>

CallMatchIssuer ==
    /\ call = NoCall
    /\ \E i \in 1..Len(projects), s \in IssuerStrings :
        call' = [op |-> "match_issuer", self |-> projects[i], issuer |-> s,
                 result |-> match_issuer(projects[i], s)]
    /\ UNCHANGED <<projects, verify_binding, reqvars>>

CallMatchClaims ==
    /\ call = NoCall
    /\ \E i \in 1..Len(projects), c \in ClaimSets :
        call' = [op |-> "match_claims", self |-> projects[i], token_claims |-> c,
                 result |-> match_claims(projects[i], c)]
    /\ UNCHANGED <<projects, verify_binding, reqvars>>

\* the caller has used the result
CallReturns ==
    /\ call # NoCall
    /\ call' = NoCall
    /\ UNCHANGED <<projects, verify_binding, reqvars>>

InitModels ==
    /\ projects \in ModelRegistries
    /\ verify_binding = "oidc"
    /\ call = NoCall
    /\ Idle

NextModels ==
    \/ CallHasIssuer
    \/ CallFindProjectByClaims
    \/ CallMatchIssuer
    \/ CallMatchClaims
    \/ CallReturns

SpecModels == InitModels /\ [][NextModels]_vars

-----------------------------------------------------------------------------
(* verify_token called directly with its four arguments *)

\* registered claims a token may carry besides the valid and the expired ones:
\* another audience, an issue time in the future, or one of them missing
WrongAudStdClaims == [aud |-> "other.example.org", exp |-> 200, iat |-> 50]
FutureIatStdClaims == [aud |-> expected_audience, exp |-> 200, iat |-> 150]
VerifyStdClaims ==
    {ValidStdClaims, ExpiredStdClaims, WrongAudStdClaims, FutureIatStdClaims}
    \cup {[n \in {"aud", "exp", "iat"} \ {missing} |-> ValidStdClaims[n]] :
            missing \in {"aud", "exp", "iat"}}

\* the other claims of the token: iss and repo, each present or not
VerifyClaimSets ==
    {c \in ClaimSets :
        /\ ~Has(c, "ref")
        /\ Has(c, "iss") => c.iss \in {"https://idp.example", "https://other.example"}
        /\ Has(c, "repo") => c.repo = "org/app"}

\* the tokens handed to verify_token: no JWT, or a JWT of any algorithm whose
\* header names the key of the provider or of an attacker and whose signature
\* or MAC is valid under one of the two
VerifyTokens ==
    {MalformedToken} \cup
    {Jwt(alg, kid, key, c @@ std) :
        alg \in {"RS256", "HS256", "none"},
        kid \in {IssuerKey("https://idp.example"), AttackerKey},
        key \in {IssuerKey("https://idp.example"), AttackerKey},
        c \in VerifyClaimSets,
        std \in VerifyStdClaims}

\* the issuer and the required_claims arguments
VerifyIssuers == {"https://idp.example", "https://ci.example"}
CallerRequiredClaims == SUBSET {"iss", "repo"}

CallVerifyToken ==
    /\ call = NoCall
    /\ \E tok \in VerifyTokens, issuer \in VerifyIssuers,
          required_claims \in CallerRequiredClaims :
        \E net \in NetAnswers(issuer) :
            call' = [op |-> "verify_token", token |-> tok, issuer |-> issuer,
                     expected_audience |-> expected_audience,
                     required_claims |-> required_claims, net |-> net,
                     result |-> verify_token(
                         <<tok, issuer, expected_audience, required_claims>>, net)]
    /\ UNCHANGED <<projects, verify_binding, reqvars>>

InitVerify ==
    /\ projects = <<>>
    /\ verify_binding = "oidc"
    /\ call = NoCall
    /\ Idle

NextVerify ==
    \/ CallVerifyToken
    \/ CallReturns

SpecVerify == InitVerify /\ [][NextVerify]_vars

-----------------------------------------------------------------------------
(* verify_token run statement by statement, several invocations in a row;     *)
(* steps holds the invocations that have returned, outbound every request     *)
(* sent by any of them                                                        *)

\* the most invocations in a row
MaxInvocations == 2

\* the tokens of these runs: no JWT, a valid token of the provider, an expired
\* one, and one signed by an attacker under the attacker's key id
StepTokens ==
    {MalformedToken,
     Jwt("RS256", IssuerKey("https://idp.example"), IssuerKey("https://idp.example"),
         [iss |-> "https://idp.example"] @@ ValidStdClaims),
     Jwt("RS256", IssuerKey("https://idp.example"), IssuerKey("https://idp.example"),
         [iss |-> "https://idp.example"] @@ ExpiredStdClaims),
     Jwt("RS256", AttackerKey, AttackerKey,
         [iss |-> "https://idp.example"] @@ ValidStdClaims)}

\* the invocation stops with the exception exc
FailedWith(exc) ==
    [call EXCEPT !.at = "Failed", !.trail = Append(call.trail, "Failed"),
                 !.result = Raise(exc, <<>>)]

\* the invocation goes on to the position at
MovedTo(at) == [call EXCEPT !.at = at, !.trail = Append(call.trail, at)]

\* the request GET url goes out in this invocation
Sent(c, url) == [c EXCEPT !.calls = Append(c.calls, [method |-> "GET", url |-> url])]

\* verify_token is entered with its four arguments; net is what the network
\* will answer during this invocation
VerifyBegin ==
    /\ call = NoCall
    /\ Len(steps) < MaxInvocations
    /\ \E tok \in StepTokens, issuer \in VerifyIssuers :
        \E net \in NetAnswers(issuer) :
            call' = [op |-> "verify_token", at |-> "Start", trail |-> <<"Start">>,
                     token |-> tok, issuer |-> issuer,
                     expected_audience |-> expected_audience,
                     required_claims |-> {}, net |-> net,
                     calls |-> <<>>, result |-> None]
    /\ UNCHANGED <<projects, verify_binding, reqvars>>

\* variant of the discovery step: a document fetched for the same issuer by an
\* earlier invocation is used again and no request is sent
FetchDiscoveryCached ==
    /\ call # NoCall
    /\ call.at = "Start"
    /\ LET config_url == call.issuer \o "/.well-known/openid-configuration"
           cached == \E k \in 1..Len(outbound) : outbound[k].url = config_url
           sent == IF cached THEN call ELSE Sent(call, config_url)
       IN  /\ outbound' = IF cached THEN outbound
                          ELSE Append(outbound, [method |-> "GET", url |-> config_url])
           /\ call' =
                IF call.net.discovery.kind = "RequestException"
                THEN [sent EXCEPT !.at = "Failed", !.trail = Append(call.trail, "Failed"),
                                  !.result = Raise("TokenVerificationError", <<>>)]
                ELSE IF ~call.net.discovery.is_object
                THEN [sent EXCEPT !.at = "Failed", !.trail = Append(call.trail, "Failed"),
                                  !.result = Raise("AttributeError", <<>>)]
                ELSE IF ~Has(call.net.discovery.doc, "jwks_uri")
                        \/ call.net.discovery.doc.jwks_uri = ""
                THEN [sent EXCEPT !.at = "Failed", !.trail = Append(call.trail, "Failed"),
                                  !.result = Raise("TokenVerificationError", <<>>)]
                ELSE [sent EXCEPT !.at = "DiscoveryFetched",
                                  !.trail = Append(call.trail, "DiscoveryFetched")]
    /\ UNCHANGED <<projects, verify_binding, pc, authorization, payload, token,
                   unverified_issuer, verified_claims, project, dt_payload,
                   response, steps, log>>

\* requests.get(config_url, timeout=10), raise_for_status, json, and
\* jwks_uri = oidc_config.get("jwks_uri")
FetchDiscovery ==
    /\ call # NoCall
    /\ call.at = "Start"
    /\ LET config_url == call.issuer \o "/.well-known/openid-configuration"
           sent == Sent(call, config_url)
       IN  /\ outbound' = Append(outbound, [method |-> "GET", url |-> config_url])
           /\ call' =
                IF call.net.discovery.kind = "RequestException"
                THEN [sent EXCEPT !.at = "Failed", !.trail = Append(call.trail, "Failed"),
                                  !.result = Raise("TokenVerificationError", <<>>)]
                ELSE IF ~call.net.discovery.is_object
                THEN [sent EXCEPT !.at = "Failed", !.trail = Append(call.trail, "Failed"),
                                  !.result = Raise("AttributeError", <<>>)]
                ELSE IF ~Has(call.net.discovery.doc, "jwks_uri")
                        \/ call.net.discovery.doc.jwks_uri = ""
                THEN [sent EXCEPT !.at = "Failed", !.trail = Append(call.trail, "Failed"),
                                  !.result = Raise("TokenVerificationError", <<>>)]
                ELSE [sent EXCEPT !.at = "DiscoveryFetched",
                                  !.trail = Append(call.trail, "DiscoveryFetched")]
    /\ UNCHANGED <<projects, verify_binding, pc, authorization, payload, token,
                   unverified_issuer, verified_claims, project, dt_payload,
                   response, steps, log>>

\* jwt.PyJWKClient(jwks_uri).get_signing_key_from_jwt(token): the header of the
\* token is decoded, then the key set is fetched and the key of the kid is taken
ResolveKey ==
    /\ call # NoCall
    /\ call.at = "DiscoveryFetched"
    /\ IF ~call.token.wellformed
       THEN /\ call' = FailedWith("TokenVerificationError")
            /\ UNCHANGED outbound
       ELSE LET jwks_uri == call.net.discovery.doc.jwks_uri
            IN  /\ outbound' = Append(outbound, [method |-> "GET", url |-> jwks_uri])
                /\ call' =
                     IF call.net.jwks.kind # "keys"
                        \/ call.token.kid \notin call.net.jwks.keys
                     THEN Sent(FailedWith("TokenVerificationError"), jwks_uri)
                     ELSE Sent(MovedTo("KeyResolved"), jwks_uri)
    /\ UNCHANGED <<projects, verify_binding, pc, authorization, payload, token,
                   unverified_issuer, verified_claims, project, dt_payload,
                   response, steps, log>>

\* claims = jwt.decode(token, signing_key.key, ...); return claims
CheckToken ==
    /\ call # NoCall
    /\ call.at = "KeyResolved"
    /\ call' =
         IF jwt_decode_ok(call.token, call.token.kid, call.expected_audience,
                          {"aud", "exp", "iat"} \cup call.required_claims)
         THEN [MovedTo("Verified") EXCEPT !.result = Return(call.token.claims, <<>>)]
         ELSE FailedWith("TokenVerificationError")
    /\ UNCHANGED <<projects, verify_binding, reqvars>>

\* the invocation returns or raises; its locals are gone
VerifyEnd ==
    /\ call # NoCall
    /\ call.at \in {"Verified", "Failed"}
    /\ steps' = Append(steps, [issuer |-> call.issuer, trail |-> call.trail,
                               calls |-> call.calls])
    /\ call' = NoCall
    /\ UNCHANGED <<projects, verify_binding, pc, authorization, payload, token,
                   unverified_issuer, verified_claims, project, dt_payload,
                   response, outbound, log>>

NextVerifySteps ==
    \/ VerifyBegin
    \/ FetchDiscovery
    \/ ResolveKey
    \/ CheckToken
    \/ VerifyEnd

SpecVerifySteps == InitVerify /\ [][NextVerifySteps]_vars

-----------------------------------------------------------------------------
(* Properties of the registry methods *)

\* the issuer of a registered project, as the string the registry holds
StoredIssuer(p) == "https://" \o p.issuer.host \o p.issuer.path

\* project p has the issuer of the claims and every one of its required claims
\* is present in them with the required value
Satisfies(p, claims) ==
    /\ StoredIssuer(p) = claims["iss"]
    /\ \A name \in DOMAIN p.required_claims :
        /\ name \in DOMAIN claims
        /\ claims[name] = p.required_claims[name]

Registered(p) == \E i \in 1..Len(projects) : projects[i] = p

FindCalled == call.op = "find_project_by_claims" /\ Has(call.token_claims, "iss")

\* C7: for every registry and every claim set containing iss,
\* find_project_by_claims returns a project only if the project's issuer equals
\* claims.iss exactly and every required claim is present with the required
\* value; it returns None exactly when no registered project satisfies both.
C7_FindReturnsOnlySatisfyingProject ==
    FindCalled =>
        /\ call.result.kind = "return"
        /\ call.result.value # None =>
            /\ Registered(call.result.value)
            /\ Satisfies(call.result.value, call.token_claims)
        /\ call.result.value = None <=>
            ~\E i \in 1..Len(projects) : Satisfies(projects[i], call.token_claims)

\* a project with required claims was found in a registry of two projects
C7_Witness ==
    /\ FindCalled
    /\ Len(projects) = 2
    /\ call.result.value # None
    /\ DOMAIN call.result.value.required_claims # {}

\* C8: when several registered projects satisfy the same claim set,
\* find_project_by_claims returns the first of them in registry order: no
\* project earlier in the registry than the returned one satisfies the claims.
C8_FirstInRegistryOrderWins ==
    (FindCalled /\ call.result.kind = "return" /\ call.result.value # None) =>
        \E i \in 1..Len(projects) :
            /\ projects[i] = call.result.value
            /\ \A j \in 1..(i - 1) : ~Satisfies(projects[j], call.token_claims)

\* two projects of one issuer satisfy the claims and the first was returned
C8_Witness ==
    /\ FindCalled
    /\ Len(projects) >= 2
    /\ Satisfies(projects[1], call.token_claims)
    /\ Satisfies(projects[2], call.token_claims)
    /\ projects[1].required_claims # projects[2].required_claims
    /\ call.result.value = projects[1]

\* the claim set without the claim name
WithoutClaim(claims, name) == [n \in DOMAIN claims \ {name} |-> claims[n]]

LacksRequiredClaim(p, claims) ==
    \E name \in DOMAIN p.required_claims : name \notin DOMAIN claims

\* C9: a project one of whose required claims is absent from the claim set is a
\* non-match, not an error: match_claims is false for it, find_project_by_claims
\* raises nothing, never returns such a project, goes on to the later projects
\* and returns None if none matches; and a claim set that matched a project no
\* longer matches it once any single required claim is removed.
C9_AbsentRequiredClaimIsNonMatch ==
    /\ call.op = "match_claims" =>
        /\ LacksRequiredClaim(call.self, call.token_claims) => call.result = FALSE
        /\ call.result = TRUE =>
            \A name \in DOMAIN call.self.required_claims :
                ~match_claims(call.self, WithoutClaim(call.token_claims, name))
    /\ FindCalled =>
        /\ call.result.kind = "return"
        /\ call.result.value # None =>
            ~LacksRequiredClaim(call.result.value, call.token_claims)
        /\ (\E i \in 1..Len(projects) : Satisfies(projects[i], call.token_claims))
            => call.result.value # None
        /\ (\A i \in 1..Len(projects) :
                LacksRequiredClaim(projects[i], call.token_claims))
            => call.result.value = None

\* the first project has the issuer of the claims but requires a claim they
\* lack, and the search went on to return the second project
C9_Witness ==
    /\ FindCalled
    /\ Len(projects) >= 2
    /\ StoredIssuer(projects[1]) = call.token_claims["iss"]
    /\ LacksRequiredClaim(projects[1], call.token_claims)
    /\ call.result.kind = "return"
    /\ call.result.value = projects[2]

\* C10: a project whose required_claims is empty matches every claim set:
\* match_claims is true whatever claims are present, and find_project_by_claims
\* returns it for every claim set with its issuer when it is the first project
\* of the registry with that issuer.
C10_EmptyRequiredClaimsMatchOnIssuer ==
    /\ (call.op = "match_claims" /\ DOMAIN call.self.required_claims = {})
        => call.result = TRUE
    /\ FindCalled =>
        \A i \in 1..Len(projects) :
            ( /\ DOMAIN projects[i].required_claims = {}
              /\ StoredIssuer(projects[i]) = call.token_claims["iss"]
              /\ \A j \in 1..(i - 1) :
                    StoredIssuer(projects[j]) # StoredIssuer(projects[i]) )
            => (call.result.kind = "return" /\ call.result.value = projects[i])

\* the second project has no required claims and was found for a claim set
\* that carries further claims
C10_Witness ==
    /\ FindCalled
    /\ Len(projects) >= 2
    /\ DOMAIN projects[2].required_claims = {}
    /\ Has(call.token_claims, "repo")
    /\ call.result.kind = "return"
    /\ call.result.value = projects[2]

\* C11: for every registry and every string s, has_issuer(s) is true if and
\* only if the stored issuer of some registered project equals s by exact string
\* equality: true for the issuer of every registered project, false for every
\* other string, and a string that differs from a stored issuer only by a
\* trailing slash is a different issuer.
C11_HasIssuerIsExactStringEquality ==
    call.op = "has_issuer" =>
        /\ call.result = (\E i \in 1..Len(projects) :
                            StoredIssuer(projects[i]) = call.issuer)
        /\ \A i \in 1..Len(projects) :
            /\ has_issuer(projects, StoredIssuer(projects[i]))
            /\ (StoredIssuer(projects[i]) = call.issuer \o "/"
                    /\ ~\E j \in 1..Len(projects) :
                            StoredIssuer(projects[j]) = call.issuer)
                => call.result = FALSE

\* https://idp.example was asked for while the registry holds only
\* https://idp.example/ and another issuer, and the answer was false
C11_Witness ==
    /\ call.op = "has_issuer"
    /\ call.issuer = "https://idp.example"
    /\ Len(projects) = 2
    /\ StoredIssuer(projects[1]) = "https://idp.example/"
    /\ StoredIssuer(projects[2]) = "https://ci.example"
    /\ call.result = FALSE

-----------------------------------------------------------------------------
(* Properties of verify_token *)

VerifyCalled == call.op = "verify_token"
VerifyReturned == VerifyCalled /\ call.result.kind = "return"

\* the two requests of a complete verification, in their order
DiscoveryThenKeys ==
    <<[method |-> "GET",
       url |-> call.issuer \o "/.well-known/openid-configuration"],
      [method |-> "GET", url |-> call.net.discovery.doc.jwks_uri]>>

\* C12: verify_token returns no claims when the discovery endpoint is
\* unreachable or answers non-2xx, when the discovery document has no jwks_uri,
\* when no published key matches the token's key id or signature, when aud is
\* not the expected audience, when exp is in the past, or when aud, exp, iat or
\* a required claim named by the caller is missing; claims are returned only
\* after discovery, key resolution and the signature and claims check all
\* succeeded in the same invocation.
C12_NoClaimsUnlessEveryStepSucceeded ==
    VerifyReturned =>
        /\ call.net.discovery.kind = "json"
        /\ Has(call.net.discovery.doc, "jwks_uri")
        /\ call.net.jwks.kind = "keys"
        /\ call.token.kid \in call.net.jwks.keys
        /\ call.token.signed_with \in call.net.jwks.keys
        /\ ({"aud", "exp", "iat"} \cup call.required_claims)
                \subseteq DOMAIN call.token.claims
        /\ call.token.claims.aud = call.expected_audience
        /\ call.token.claims.exp > Clock.now
        /\ call.result.value = call.token.claims
        /\ call.result.calls = DiscoveryThenKeys

\* a token signed by the provider with valid aud, exp and iat was refused after
\* both fetches because it lacks the claim repo that the caller requires
C12_Witness ==
    /\ VerifyCalled
    /\ call.required_claims = {"repo"}
    /\ call.token.alg = "RS256"
    /\ call.token.kid = IssuerKey(call.issuer)
    /\ call.token.signed_with = IssuerKey(call.issuer)
    /\ call.token.claims = [iss |-> "https://idp.example"] @@ ValidStdClaims
    /\ call.net.jwks.kind = "keys"
    /\ call.result.kind = "raise"
    /\ call.result.exc = "TokenVerificationError"
    /\ Len(call.result.calls) = 2

\* C13: every failure of verify_token surfaces as TokenVerificationError:
\* whatever the discovery fetch (network error, non-2xx, malformed JSON, a JSON
\* document that is no object or lacks jwks_uri), the key fetch and the
\* signature and claims check do, verify_token returns claims or raises
\* TokenVerificationError, and no other error type reaches the caller.
C13_OnlyTokenVerificationErrorEscapes ==
    VerifyCalled =>
        \/ call.result.kind = "return"
        \/ call.result.exc = "TokenVerificationError"

\* C14: verify_token accepts only RS256: a token whose header names another
\* algorithm (HS256, none) is never verified, even when its MAC is valid under
\* a key value fetched from the issuer's published key set.
C14_OnlyRS256Accepted ==
    (VerifyCalled /\ call.token.wellformed /\ call.token.alg # "RS256")
        => call.result.kind = "raise"

\* an HS256 token whose MAC is valid under the provider's published key,
\* with valid claims, was refused after the keys were fetched
C14_Witness ==
    /\ VerifyCalled
    /\ call.token.alg = "HS256"
    /\ call.token.kid = IssuerKey(call.issuer)
    /\ call.token.signed_with = IssuerKey(call.issuer)
    /\ call.token.claims = [iss |-> "https://idp.example"] @@ ValidStdClaims
    /\ call.required_claims = {}
    /\ call.net.jwks.kind = "keys"
    /\ call.result.kind = "raise"
    /\ call.result.exc = "TokenVerificationError"
    /\ Len(call.result.calls) = 2

C25_PreFilterConsistentWithMatcher ==
    /\ (FindCalled /\ call.result.kind = "return" /\ call.result.value # None)
        => has_issuer(projects, call.token_claims["iss"])
    /\ (call.op = "has_issuer" /\ call.result = FALSE) =>
        \A c \in ClaimSets :
            (Has(c, "iss") /\ c["iss"] = call.issuer)
                => find_project_by_claims(projects, c) = Return(None, <<>>)
    /\ call.op = "has_issuer" => call.result = has_issuer(projects, call.issuer)

\* the matcher returned the second project, whose issuer is not the first
\* project's
C25_Witness ==
    /\ FindCalled
    /\ Len(projects) = 2
    /\ StoredIssuer(projects[1]) # StoredIssuer(projects[2])
    /\ call.result.kind = "return"
    /\ call.result.value = projects[2]
    /\ DOMAIN projects[2].required_claims = {"repo"}

\* the positions of one invocation, in their order
VerifyOrder == <<"Start", "DiscoveryFetched", "KeyResolved", "Verified">>

\* trail is a run Start, DiscoveryFetched, KeyResolved, Verified or a part of
\* it from Start on, possibly ended by Failed
LinearTrail(trail) ==
    /\ Len(trail) >= 1
    /\ Len(trail) <= Len(VerifyOrder)
    /\ \A k \in 1..Len(trail) :
        \/ trail[k] = VerifyOrder[k]
        \/ trail[k] = "Failed" /\ k = Len(trail) /\ k > 1

\* the requests of an invocation for the issuer that went through trail: the
\* discovery fetch once it has left Start, then the key fetch, at the latest
\* when the key is resolved, each at most once
OwnFetches(issuer, trail, calls) ==
    LET discovery == [method |-> "GET",
                      url |-> issuer \o "/.well-known/openid-configuration"]
    IN  /\ Len(calls) <= 2
        /\ Len(trail) >= 2 => (Len(calls) >= 1 /\ calls[1] = discovery)
        /\ Len(trail) = 1 => calls = <<>>
        /\ Len(calls) = 2 =>
            /\ calls[2] # discovery
            /\ Len(trail) >= 3
        /\ (Len(trail) >= 3 /\ trail[3] = "KeyResolved") => Len(calls) = 2

RECURSIVE AllFetches(_, _)
\* the requests of the first n returned invocations, one after the other
AllFetches(done, n) ==
    IF n = 0 THEN <<>> ELSE AllFetches(done, n - 1) \o done[n].calls

-----------------------------------------------------------------------------
(* Properties of the request handler *)

StepOrder == <<"bearer", "decode", "prefilter", "verify", "match", "relay">>

StepOk(name) == \E k \in 1..Len(steps) : steps[k] = <<name, "ok">>
StepFailed(name) == \E k \in 1..Len(steps) : steps[k] = <<name, "failed">>
StepRan(name) == StepOk(name) \/ StepFailed(name)

\* the relay call dependencytrack.upload_sbom was made in this request
RelayCalled == \E k \in 1..Len(outbound) : outbound[k].method = "POST"

\* C1: the relay is invoked only if, earlier in the same request, verify_token
\* returned claims and find_project_by_claims returned a project for those
\* claims; the parent id passed to the relay is that project's dt_parent_uuid.
\* Passing the issuer pre-filter alone never leads to a relay call.
C1_RelayOnlyAfterVerifyAndMatch ==
    RelayCalled =>
        /\ StepOk("verify")
        /\ verified_claims # None
        /\ StepOk("match")
        /\ project # None
        /\ Registered(project)
        /\ Satisfies(project, verified_claims)
        /\ dt_payload.parent_uuid = project.dt_parent_uuid
        /\ \A k \in 1..Len(outbound) :
            outbound[k].method = "POST"
                => outbound[k].json.parentUUID = project.dt_parent_uuid

\* the payload was relayed under the parent id of the second project
C1_Witness ==
    /\ pc = "done"
    /\ RelayCalled
    /\ Len(projects) = 2
    /\ project = projects[2]
    /\ dt_payload.parent_uuid = "uuid-2"

\* the unverified issuer of the token is the issuer of no registered project
UnknownIssuer ==
    /\ unverified_issuer # Unset
    /\ ~\E i \in 1..Len(projects) : StoredIssuer(projects[i]) = unverified_issuer

\* C2: a request whose token's unverified issuer is the issuer of no registered
\* project is rejected at the pre-filter and makes no outbound network call;
\* has_issuer is evaluated before the first outbound call.
C2_UnknownIssuerRejectedBeforeAnyCall ==
    /\ UnknownIssuer =>
        /\ outbound = <<>>
        /\ pc \in {"prefilter", "done"}
        /\ pc = "done" =>
            /\ steps[Len(steps)] = <<"prefilter", "failed">>
            /\ response.status_code = 401
    /\ outbound # <<>> => StepOk("prefilter")

\* a token of the unregistered issuer other.example was rejected without a call
C2_Witness ==
    /\ pc = "done"
    /\ Len(projects) > 0
    /\ unverified_issuer = "https://other.example"
    /\ token.signed_with = token.kid
    /\ response.status_code = 401
    /\ outbound = <<>>

\* C3: the handler runs its steps in the order bearer extraction, unverified
\* decode, issuer pre-filter, signature verification, project matching, relay,
\* and stops at the first failure: no step runs after a failed one. Project
\* matching runs only after verify_token returned claims.
C3_FixedOrderFailFast ==
    /\ Len(steps) <= Len(StepOrder)
    /\ \A k \in 1..Len(steps) :
        /\ steps[k][1] = StepOrder[k]
        /\ steps[k][2] = "failed" => (k = Len(steps) /\ pc = "done")
    /\ (pc = "match" \/ StepRan("match")) =>
        (StepOk("verify") /\ verified_claims # None)

\* the verification step failed as the fourth step and nothing ran after it
C3_Witness ==
    /\ pc = "done"
    /\ steps = <<<<"bearer", "ok">>, <<"decode", "ok">>, <<"prefilter", "ok">>,
                 <<"verify", "failed">>>>
    /\ outbound = <<>>

\* the request of scenario A: a bearer token that the provider named by its iss
\* signed with RS256, not expired, for the expected audience, whose claims
\* satisfy a registered project
ScenarioA ==
    /\ authorization # None
    /\ authorization.scheme = "Bearer "
    /\ payload.valid
    /\ LET t == authorization.credential
       IN  /\ t.wellformed
           /\ t.alg = "RS256"
           /\ Has(t.claims, "iss")
           /\ t.kid = IssuerKey(t.claims["iss"])
           /\ t.signed_with = t.kid
           /\ t.claims.aud = expected_audience
           /\ t.claims.exp > Clock.now
           /\ t.claims.iat <= Clock.now
           /\ \E i \in 1..Len(projects) : Satisfies(projects[i], t.claims)

\* C4: scenario A: a request with a valid token of a registered issuer whose
\* claims satisfy a project ends with that project selected and the payload
\* handed to the relay, the response being the downstream response.
C4_ScenarioARelayed ==
    (pc = "done" /\ ScenarioA) =>
        /\ project # None
        /\ Satisfies(project, authorization.credential.claims)
        /\ RelayCalled
        /\ response.kind \in {"Response", "HTTPException"}
        /\ response.kind = "HTTPException" => response.status_code = 502

\* C5: scenario C: when verification succeeded but no project with the token's
\* issuer has all its required claims satisfied by the verified claims, the
\* request is rejected with HTTP 401 at project matching and the relay is never
\* called.
C5_NoMatchingProjectIs401 ==
    (StepOk("verify")
        /\ ~\E i \in 1..Len(projects) : Satisfies(projects[i], verified_claims)) =>
        /\ ~RelayCalled
        /\ pc \in {"match", "done"}
        /\ pc = "done" =>
            /\ steps[Len(steps)] = <<"match", "failed">>
            /\ response.kind = "HTTPException"
            /\ response.status_code = 401

\* the issuer is registered and the token verified, but its repo claim is
\* org/other where the only project of the issuer requires org/app
C5_Witness ==
    /\ pc = "done"
    /\ StepOk("verify")
    /\ Len(projects) = 1
    /\ projects[1].required_claims = [repo |-> "org/app"]
    /\ Has(verified_claims, "repo")
    /\ verified_claims["repo"] = "org/other"
    /\ response.status_code = 401
    /\ ~RelayCalled

\* C6: scenario D: when the token was verified and a project matched and the
\* relay call fails in transport, the caller receives HTTP 502, not 401; and a
\* 502 is produced only after verification and matching succeeded.
C6_RelayFailureIs502 ==
    /\ StepFailed("relay") =>
        /\ StepOk("verify")
        /\ StepOk("match")
        /\ response.kind = "HTTPException"
        /\ response.status_code = 502
    /\ (response # None /\ response.status_code = 502) =>
        /\ StepOk("verify")
        /\ StepOk("match")
        /\ project # None
        /\ RelayCalled

\* the relay call failed after a project matched, and the caller got 502
C6_Witness ==
    /\ pc = "done"
    /\ StepOk("match")
    /\ steps[Len(steps)] = <<"relay", "failed">>
    /\ response = [kind |-> "HTTPException", status_code |-> 502,
                   body |-> "Failed to upload to DependencyTrack"]

\* the request entered upload_sbom and ended before the relay step
RejectedBeforeRelay ==
    /\ pc = "done"
    /\ steps # <<>>
    /\ ~StepRan("relay")

\* C16: every rejection at the steps 1 to 5 of the handler (bearer scheme
\* malformed or missing, token undecodable or without iss, unknown issuer,
\* verification failure, no matching project) yields HTTP 401.
C16_EveryRejectionIs401 ==
    RejectedBeforeRelay =>
        /\ response.kind = "HTTPException"
        /\ response.status_code = 401

\* the response of a rejection at the first check, the bearer scheme
BearerRejection == HTTP401("Invalid Authorization header format")

\* C17: the failures of the authorization path are indistinguishable to the
\* caller: the response, status and body, of a request rejected at any check
\* is the response of a request rejected at the first check.
C17_RejectionsIndistinguishable ==
    (RejectedBeforeRelay /\ response.status_code = 401)
        => response = BearerRejection

\* the answer of DependencyTrack to the relay call of this request
DownstreamAnswer == outbound[Len(outbound)].answer

\* C18: when authorization succeeded and the relay call returned a response,
\* of whatever status, the caller receives exactly the status code and the
\* body of the downstream response.
C18_DownstreamResponseRelayed ==
    (pc = "done" /\ RelayCalled /\ DownstreamAnswer.kind = "response") =>
        /\ StepOk("relay")
        /\ response = Response(DownstreamAnswer.content, DownstreamAnswer.status_code)

\* DependencyTrack answered 401 with the body denied, and the caller received
\* that status and body as a plain response
C18_Witness ==
    /\ pc = "done"
    /\ RelayCalled
    /\ DownstreamAnswer.kind = "response"
    /\ DownstreamAnswer.status_code = 401
    /\ DownstreamAnswer.content = "denied"
    /\ response = [kind |-> "Response", status_code |-> 401, body |-> "denied"]

\* C19: every request handed to the handler ends in exactly one of: the
\* downstream response relayed, a classified 401, or a 502; none ends in an
\* unclassified internal error.
C19_EveryRequestEndsClassified ==
    (pc = "done" /\ steps # <<>>) =>
        \/ response.kind = "Response" /\ StepOk("relay")
        \/ response.kind = "HTTPException" /\ response.status_code = 401
                /\ ~StepRan("relay")
        \/ response.kind = "HTTPException" /\ response.status_code = 502
                /\ StepFailed("relay")

\* the handler waits in an outbound call for an answer that never comes
RequestHeld == pc = "blocked"

\* C22: every authorization attempt completes with a response or a failure
\* even when a remote endpoint never answers, each of the three outbound calls
\* (discovery fetch, key fetch, relay call) being bounded by a timeout: no
\* request is held for ever by the issuer or by the downstream service.
C22_NoRequestHeldForever == ~RequestHeld

C26_OneIssuerThroughout ==
    StepOk("match") =>
        /\ project # None
        /\ unverified_issuer = authorization.credential.claims["iss"]
        /\ verified_claims["iss"] = unverified_issuer
        /\ StoredIssuer(project) = unverified_issuer

\* a project of the issuer https://idp.example/ was selected although the
\* registry holds a project of https://idp.example before it
C26_Witness ==
    /\ StepOk("match")
    /\ pc = "relay"
    /\ Len(projects) = 2
    /\ StoredIssuer(projects[1]) = "https://idp.example"
    /\ projects[1].required_claims = EmptyDict
    /\ unverified_issuer = "https://idp.example/"
    /\ project = projects[2]

-----------------------------------------------------------------------------
(* Properties of requests in flight together *)

RanOk(l, name) == \E k \in 1..Len(l.steps) : l.steps[k] = <<name, "ok">>
RanFailed(l, name) == \E k \in 1..Len(l.steps) : l.steps[k] = <<name, "failed">>

\* the token of the request whose locals are l
OwnToken(l) == l.authorization.credential

\* the first project of the registry that the claims satisfy is p
FirstSatisfying(p, claims) ==
    \E i \in 1..Len(projects) :
        /\ projects[i] = p
        /\ Satisfies(p, claims)
        /\ \A j \in 1..(i - 1) : ~Satisfies(projects[j], claims)

\* the locals l are those of a run of their request alone: every step
\* succeeded or failed by the request's own header and token, and token,
\* issuer, claims, project, relayed payload and response are the request's own
RunsAsAlone(l) ==
    /\ RanOk(l, "bearer") =>
        (l.authorization.scheme = "Bearer " /\ l.token = OwnToken(l))
    /\ RanFailed(l, "bearer") => l.authorization.scheme # "Bearer "
    /\ RanOk(l, "decode") =>
        /\ OwnToken(l).wellformed
        /\ Has(OwnToken(l).claims, "iss")
        /\ l.unverified_issuer = OwnToken(l).claims["iss"]
    /\ RanFailed(l, "decode") =>
        (~OwnToken(l).wellformed \/ ~Has(OwnToken(l).claims, "iss"))
    /\ RanOk(l, "prefilter") =>
        \E i \in 1..Len(projects) :
            StoredIssuer(projects[i]) = OwnToken(l).claims["iss"]
    /\ RanFailed(l, "prefilter") =>
        ~\E i \in 1..Len(projects) :
            StoredIssuer(projects[i]) = OwnToken(l).claims["iss"]
    /\ RanOk(l, "verify") => l.verified_claims = OwnToken(l).claims
    /\ RanOk(l, "match") => FirstSatisfying(l.project, OwnToken(l).claims)
    /\ RanFailed(l, "match") =>
        ~\E i \in 1..Len(projects) : Satisfies(projects[i], OwnToken(l).claims)
    /\ \A k \in 1..Len(l.outbound) :
        l.outbound[k].method = "POST" =>
            /\ RanOk(l, "match")
            /\ l.outbound[k].json.parentUUID = l.project.dt_parent_uuid
            /\ l.outbound[k].json.projectName = l.payload.product_name
            /\ l.outbound[k].json.projectVersion = l.payload.product_version
            /\ l.outbound[k].json.bom = l.payload.bom
    /\ RanOk(l, "relay") =>
        LET answer == l.outbound[Len(l.outbound)].answer
        IN  l.response = Response(answer.content, answer.status_code)

\* C24: requests in flight together are independent: however their steps
\* interleave, each request is rejected or matched and relayed as it would be
\* alone against the same registry, settings and remote answers; no request
\* is relayed with the project, claims or payload of another.
C24_InterleavedRequestsIndependent ==
    /\ RunsAsAlone(Locals)
    /\ call.op = "parked" => RunsAsAlone(call)

\* both requests are in the relay step at once, matched to different projects
\* and carrying different payloads
C24_Witness ==
    /\ call.op = "parked"
    /\ pc = "relay"
    /\ call.pc = "relay"
    /\ project # call.project
    /\ payload # call.payload
    /\ verified_claims # call.verified_claims

-----------------------------------------------------------------------------
(* Properties of the startup *)

LoadCalled == call.op = "from_yaml_file"

\* the entry has every required field and an https issuer
EntryIsValid(entry) ==
    /\ "project_id" \in DOMAIN entry
    /\ "issuer" \in DOMAIN entry
    /\ "dt_parent_uuid" \in DOMAIN entry
    /\ entry.issuer.scheme = "https"

\* the source could be read and every one of its entries is valid
SourceIsValid(source) ==
    /\ source.kind = "document"
    /\ \A i \in 1..Len(source.entries) : EntryIsValid(source.entries[i])

\* C20: loading the registry is all-or-nothing: when the source is unreadable
\* or any entry fails validation (issuer not https, required field missing),
\* loading fails with an error, no registry is installed and the process never
\* serves a request; requests are served only after a load in which every
\* entry validated, and then the registry holds every entry of the source.
C20_RegistryLoadIsAllOrNothing ==
    /\ pc \in {"startup", "failed"} =>
        /\ projects = None
        /\ response = None
        /\ steps = <<>>
    /\ pc = "failed" =>
        /\ LoadCalled
        /\ ~SourceIsValid(call.source)
        /\ call.result.kind = "raise"
    /\ pc \notin {"startup", "failed"} =>
        /\ LoadCalled
        /\ SourceIsValid(call.source)
        /\ Len(projects) = Len(call.source.entries)
        /\ \A i \in 1..Len(projects) :
            /\ projects[i].project_id = call.source.entries[i].project_id
            /\ projects[i].dt_parent_uuid = call.source.entries[i].dt_parent_uuid
            /\ StoredIssuer(projects[i]) =
                    "https://" \o call.source.entries[i].issuer.host
                               \o call.source.entries[i].issuer.path

\* the first entry of the source is valid and the second names an http issuer:
\* the load failed and nothing of the source was installed
C20_Witness ==
    /\ pc = "failed"
    /\ LoadCalled
    /\ Len(call.source.entries) = 2
    /\ EntryIsValid(call.source.entries[1])
    /\ call.source.entries[2].issuer.scheme = "http"
    /\ call.result.exc = "ValidationError"
    /\ projects = None

====
